---------------------------- MODULE Spec2Model ----------------------------
(***************************************************************************)
(* DocuClear: the image-processing core (utils/imageProcessing) and the    *)
(* components that drive it.                                               *)
(*                                                                         *)
(* Numbers.  The code computes on IEEE-754 doubles.  The homography solver *)
(* and the warp are modelled on exact rationals extended with signed zero, *)
(* +Infinity, -Infinity and NaN, with the IEEE rules for every operation   *)
(* (x/0, 0/0, Inf-Inf, 0*Inf, comparisons with NaN), so that a division by *)
(* a zero pivot produces what the code produces.  Rounding error of the    *)
(* doubles is not modelled.                                                *)
(***************************************************************************)
EXTENDS Integers, Sequences, FiniteSets, TLC

VARIABLES
    srcQuad,    \* computeHomography: src1..src4
    dstQuad,    \* computeHomography: dst1..dst4 (performWarp: corners)
    A,          \* computeHomography / solveLinearSystem: the matrix, updated in place
    B,          \* computeHomography / solveLinearSystem: the right-hand side
    step,       \* solveLinearSystem: the loop variable i of the elimination (1-based)
    hMatrix,    \* computeHomography: the returned array of 9 numbers
    hfail,      \* the failure the solver reported, "none" when it returned an array
    hpc,        \* where the solver is: "ready", "eliminate", "substitute", "done"
    img,        \* performWarp: the source image, [w, h, data]
    targetWidth, \* performWarp: targetWidth
    dstData,    \* performWarp: outputData.data
    wpc,        \* where performWarp is: "idle", "solve", "done"
    surface,    \* applyFilters: the canvas behind ctx, [w, h, data]
    settings,   \* applyFilters: settings, a ProcessorSettings
    input,      \* the canvas as it was when applyFilters was called
    toned,      \* the canvas as the per-pixel pass left it (putImageData, line 248)
    fpc,        \* where applyFilters is: "idle", "tone", "sharpen", "done"
    dimg,       \* detectDocumentEdges: the pixels of the sw x sh canvas, [w, h, data]
    gray,       \* detectDocumentEdges: gray, as preprocessImage filled it
    edges,      \* detectDocumentEdges: edges, as applySobel filled it
    avgGradient, \* what applySobel returned: <<totalMag in 1/16, count>>
    found,      \* detectDocumentEdges: foundPixels and the four extreme points
    dresult,    \* what detectDocumentEdges returned: "null" or the 4 points
    dpc,        \* where detectDocumentEdges is: "idle", "blur", "sobel", "scan", "done"
    initialCorners, \* CropEditor: the prop initialCorners, null or 4 points
    imgDimensions,  \* CropEditor: imgDimensions, <<w, h>>
    detected,   \* handleImageLoad: detected, null or 4 points
    isValid,    \* handleImageLoad: isValid; what validateDetection returned
    corners,    \* CropEditor: corners, null or the 4 points as numbers
    isDetecting, \* CropEditor: isDetecting
    activeCorner, \* CropEditor: activeCorner, 0 for null or the index 1..4 of a corner
    cpc,        \* where the crop editor is: "idle", "mounted", "timer", "validate", "ready"
    appState,   \* App: appState, "UPLOAD", "CROP" or "PROCESS"
    sourceImage, \* App: sourceImage, null or the data URL of a file
    warpedImage, \* App: warpedImage, null or what performWarp returned
    isProcessing, \* App: isProcessing
    lastCorners, \* App: lastCorners, null or the corners last confirmed
    readers,    \* App: the FileReaders of processFile that have not finished
    confirms,   \* App: the handleCropConfirm calls waiting at line 523
    outcome,    \* App: how the last handleCropConfirm call ended: "none", "warped", "error"
    editor,     \* App: the CropEditor that App renders, [mounted, shown, corners, isDetecting, timers]
    warpedImageSrc, \* ScannerProcessor: the prop warpedImageSrc, <<width, height>> of the image
    procSettings, \* ScannerProcessor: settings
    procIsProcessing, \* ScannerProcessor: isProcessing
    printSrc,   \* ScannerProcessor: printSrc, "" or a data URL
    canvas,     \* ScannerProcessor: the canvas of canvasRef, [width, height, content]
    runs        \* ScannerProcessor: the calls of process waiting at line 31

hvars == <<srcQuad, dstQuad, A, B, step, hMatrix, hfail, hpc>>
wvars == <<img, targetWidth, dstData, wpc>>
fvars == <<surface, settings, input, toned, fpc>>
dvars == <<dimg, gray, edges, avgGradient, found, dresult, dpc>>
cvars == <<initialCorners, imgDimensions, detected, isValid, corners, isDetecting, activeCorner, cpc>>
avars == <<appState, sourceImage, warpedImage, isProcessing, lastCorners,
           readers, confirms, outcome, editor>>
pvars == <<warpedImageSrc, procSettings, procIsProcessing, printSrc, canvas, runs>>

\* the state of the components
uvars == <<cvars, avars, pvars>>

vars == <<srcQuad, dstQuad, A, B, step, hMatrix, hfail, hpc,
          img, targetWidth, dstData, wpc,
          surface, settings, input, toned, fpc,
          dimg, gray, edges, avgGradient, found, dresult, dpc,
          initialCorners, imgDimensions, detected, isValid, corners, isDetecting,
          activeCorner, cpc,
          appState, sourceImage, warpedImage, isProcessing, lastCorners,
          readers, confirms, outcome, editor,
          warpedImageSrc, procSettings, procIsProcessing, printSrc, canvas, runs>>

(***************************************************************************)
(* Bounds of the model.                                                    *)
(***************************************************************************)
MaxCoord == 2      \* corner coordinates are 0..MaxCoord
MaxSide == 3       \* images are up to MaxSide pixels wide and high
MaxTarget == 2     \* performWarp is called with targetWidth 1..MaxTarget

(***************************************************************************)
(* IEEE numbers: <<s, n, d>> is s*n/d, s in {1,-1}, n and d naturals in    *)
(* lowest terms.  d = 0, n = 1 is an infinity; d = 0, n = 0 is NaN;        *)
(* n = 0, d = 1 is a zero, which keeps its sign.  The operations are       *)
(* functions on these triples.                                             *)
(***************************************************************************)
NumSet == {-1, 1} \X Nat \X Nat

GCD[a \in Nat, b \in Nat] == IF b = 0 THEN a ELSE GCD[b, a % b]

NaN == <<1, 0, 0>>
Inf(s) == <<s, 1, 0>>
Zero(s) == <<s, 0, 1>>

IsNaN(a) == a[2] = 0 /\ a[3] = 0
IsInf(a) == a[2] = 1 /\ a[3] = 0
IsZero(a) == a[2] = 0 /\ a[3] = 1
IsFinite(a) == a[3] # 0

\* the number i / j of the source text, j > 0
Frac(i, j) ==
    LET m == IF i < 0 THEN -i ELSE i
        g == GCD[m, j]
    IN  IF i = 0 THEN Zero(1) ELSE <<IF i < 0 THEN -1 ELSE 1, m \div g, j \div g>>

Num(i) == Frac(i, 1)

Neg[a \in NumSet] == IF IsNaN(a) THEN NaN ELSE <<-a[1], a[2], a[3]>>

Abs[a \in NumSet] == IF IsNaN(a) THEN NaN ELSE <<1, a[2], a[3]>>

Mul[a \in NumSet, b \in NumSet] ==
    IF IsNaN(a) \/ IsNaN(b) THEN NaN
    ELSE IF (IsInf(a) /\ IsZero(b)) \/ (IsZero(a) /\ IsInf(b)) THEN NaN
    ELSE IF IsInf(a) \/ IsInf(b) THEN Inf(a[1] * b[1])
    ELSE IF IsZero(a) \/ IsZero(b) THEN Zero(a[1] * b[1])
    ELSE LET g1 == GCD[a[2], b[3]]
             g2 == GCD[b[2], a[3]]
         IN  <<a[1] * b[1], (a[2] \div g1) * (b[2] \div g2),
               (a[3] \div g2) * (b[3] \div g1)>>

Div[a \in NumSet, b \in NumSet] ==
    IF IsNaN(a) \/ IsNaN(b) THEN NaN
    ELSE IF (IsInf(a) /\ IsInf(b)) \/ (IsZero(a) /\ IsZero(b)) THEN NaN
    ELSE IF IsInf(a) \/ IsZero(b) THEN Inf(a[1] * b[1])
    ELSE IF IsInf(b) \/ IsZero(a) THEN Zero(a[1] * b[1])
    ELSE Mul[a, <<b[1], b[3], b[2]>>]

Add[a \in NumSet, b \in NumSet] ==
    IF IsNaN(a) \/ IsNaN(b) THEN NaN
    ELSE IF IsInf(a) /\ IsInf(b) THEN (IF a[1] = b[1] THEN a ELSE NaN)
    ELSE IF IsInf(a) THEN a
    ELSE IF IsInf(b) THEN b
    ELSE IF IsZero(a) /\ IsZero(b)
         THEN (IF a[1] = -1 /\ b[1] = -1 THEN Zero(-1) ELSE Zero(1))
    ELSE IF IsZero(a) THEN b
    ELSE IF IsZero(b) THEN a
    ELSE LET g == GCD[a[3], b[3]]
             n == a[1] * a[2] * (b[3] \div g) + b[1] * b[2] * (a[3] \div g)
             d == (a[3] \div g) * b[3]
         IN  Frac(n, d)

Sub(a, b) == Add[a, Neg[b]]

\* a > b, a < b, a >= b of the source text: false when either side is NaN
Gt[a \in NumSet, b \in NumSet] ==
    IF IsNaN(a) \/ IsNaN(b) THEN FALSE
    ELSE IF IsInf(a) /\ IsInf(b) THEN a[1] > b[1]
    ELSE IF IsInf(a) THEN a[1] = 1
    ELSE IF IsInf(b) THEN b[1] = -1
    ELSE a[1] * a[2] * b[3] > b[1] * b[2] * a[3]

Lt(a, b) == Gt[b, a]

Ge[a \in NumSet, b \in NumSet] ==
    IF IsNaN(a) \/ IsNaN(b) THEN FALSE
    ELSE IF IsInf(a) /\ IsInf(b) THEN a[1] >= b[1]
    ELSE IF IsInf(a) THEN a[1] = 1
    ELSE IF IsInf(b) THEN b[1] = -1
    ELSE a[1] * a[2] * b[3] >= b[1] * b[2] * a[3]

\* a === b of the source text on numbers: -0 equals 0, NaN equals nothing
NumEq[a \in NumSet, b \in NumSet] ==
    /\ ~IsNaN(a) /\ ~IsNaN(b)
    /\ \/ a = b
       \/ IsZero(a) /\ IsZero(b)

(***************************************************************************)
(* Points: <<x, y>>, Point of types.ts.                                    *)
(***************************************************************************)
Coord == 0..MaxCoord
Grid == Coord \X Coord

(***************************************************************************)
(* solveLinearSystem(A, B): Gaussian elimination with partial pivoting on  *)
(* the n x n system, in place, then back substitution.  No pivot is tested *)
(* against zero.                                                           *)
(***************************************************************************)
N8 == 1..8

\* lines 408-415: the row of the largest |A[k][i]|, k >= i, first one on ties
RECURSIVE MaxRowFrom(_, _, _, _, _)
MaxRowFrom(M, i, k, maxEl, maxRow) ==
    IF k > 8 THEN maxRow
    ELSE IF Gt[Abs[M[k][i]], maxEl]
         THEN MaxRowFrom(M, i, k + 1, Abs[M[k][i]], k)
         ELSE MaxRowFrom(M, i, k + 1, maxEl, maxRow)

MaxRow(M, i) == MaxRowFrom(M, i, i + 1, Abs[M[i][i]], i)

\* lines 417-421: swap columns i.. of rows maxRow and i
SwapRowsA(M, i, maxRow) ==
    [r \in N8 |->
        IF r = i THEN [k \in N8 |-> IF k >= i THEN M[maxRow][k] ELSE M[i][k]]
        ELSE IF r = maxRow
             THEN [k \in N8 |-> IF k >= i THEN M[i][k] ELSE M[maxRow][k]]
             ELSE M[r]]

\* a slip: the right-hand side is not swapped with the rows
SwapRowsB_NotSwapped(V, i, maxRow) == V

\* lines 422-424
SwapRowsB(V, i, maxRow) ==
    [r \in N8 |-> IF r = i THEN V[maxRow] ELSE IF r = maxRow THEN V[i] ELSE V[r]]

\* lines 426-436: eliminate column i from the rows below i
EliminateA(M, i) ==
    [k \in N8 |->
        IF k <= i THEN M[k]
        ELSE LET c == Div[Neg[M[k][i]], M[i][i]]
             IN  [j \in N8 |->
                    IF j < i THEN M[k][j]
                    ELSE IF j = i THEN Zero(1)
                    ELSE Add[M[k][j], Mul[c, M[i][j]]]]]

EliminateB(M, V, i) ==
    [k \in N8 |->
        IF k <= i THEN V[k]
        ELSE LET c == Div[Neg[M[k][i]], M[i][i]]
             IN  Add[V[k], Mul[c, V[i]]]]

\* lines 441-444: sum of A[i][j] * x[j], j = i+1..n-1, starting from `sum`
RECURSIVE RowSum(_, _, _, _, _)
RowSum(M, x, i, j, sum) ==
    IF j > 8 THEN sum
    ELSE RowSum(M, x, i, j + 1, Add[sum, Mul[M[i][j], x[j]]])

\* lines 439-447: back substitution, x[i] for i = n-1 down to 0
BackSubstitute(M, V) ==
    LET Back[i \in 0..8, x \in Seq(NumSet)] ==
            IF i < 1 THEN x
            ELSE Back[i - 1,
                    [x EXCEPT ![i] =
                        Div[Sub(V[i], RowSum(M, x, i, i + 1, Zero(1))), M[i][i]]]]
    IN  Back[8, <<Zero(1), Zero(1), Zero(1), Zero(1),
                  Zero(1), Zero(1), Zero(1), Zero(1)>>]

(***************************************************************************)
(* computeHomography(src1..src4, dst1..dst4): two rows per correspondence, *)
(* the solution followed by a literal 1.                                   *)
(***************************************************************************)
\* lines 388-393: the two rows addRow pushes for (x, y) -> (u, v)
RowU(p, q) ==
    LET x == Num(p[1])
        y == Num(p[2])
        u == Num(q[1])
    IN  <<x, y, Num(1), Zero(1), Zero(1), Zero(1), Mul[Neg[x], u], Mul[Neg[y], u]>>

\* a slip: the v row multiplies by u, as the u row does
RowV_TimesU(p, q) ==
    LET x == Num(p[1])
        y == Num(p[2])
        u == Num(q[1])
    IN  <<Zero(1), Zero(1), Zero(1), x, y, Num(1), Mul[Neg[x], u], Mul[Neg[y], u]>>

RowV(p, q) ==
    LET x == Num(p[1])
        y == Num(p[2])
        v == Num(q[2])
    IN  <<Zero(1), Zero(1), Zero(1), x, y, Num(1), Mul[Neg[x], v], Mul[Neg[y], v]>>

\* lines 395-398: the matrix and the right-hand side of the four correspondences
SystemA(src, dst) ==
    <<RowU(src[1], dst[1]), RowV(src[1], dst[1]),
      RowU(src[2], dst[2]), RowV(src[2], dst[2]),
      RowU(src[3], dst[3]), RowV(src[3], dst[3]),
      RowU(src[4], dst[4]), RowV(src[4], dst[4])>>

SystemB(src, dst) ==
    <<Num(dst[1][1]), Num(dst[1][2]), Num(dst[2][1]), Num(dst[2][2]),
      Num(dst[3][1]), Num(dst[3][2]), Num(dst[4][1]), Num(dst[4][2])>>

(***************************************************************************)
(* The quadrilaterals the solver is run on.                                *)
(***************************************************************************)
\* [topLeft, topRight, bottomRight, bottomLeft] of the axis-aligned
\* rectangle with opposite corners (x0, y0) and (x1, y1)
Rect(x0, y0, x1, y1) == <<<<x0, y0>>, <<x1, y0>>, <<x1, y1>>, <<x0, y1>>>>

\* rectangles of the grid, top-left corner first, those of zero width or
\* height (duplicated and collinear corners) included
Rects == {Rect(x0, y0, x1, y1) : x0 \in Coord, y0 \in Coord,
                                 x1 \in Coord, y1 \in Coord}

UprightRects == {r \in Rects : r[1][1] <= r[3][1] /\ r[1][2] <= r[3][2]}

\* how far the last corner of a rectangle is moved to make a quadrilateral
Moves == {<<0, 0>>, <<1, 1>>}

\* rectangles of the grid in any orientation, the last corner moved
Quads == {[r EXCEPT ![4] = <<r[4][1] + m[1], r[4][2] + m[2]>>] :
            r \in Rects, m \in Moves}

NoMatrix == <<>>
Null == <<>>
NoImage == [w |-> 0, h |-> 0, data |-> <<>>]
NoSettings == [mode |-> "original", threshold |-> 0, sharpness |-> 0,
               brightness |-> 0, contrast |-> 0]

\* the solver before computeHomography is called
SolverReady ==
    /\ A = NoMatrix
    /\ B = NoMatrix
    /\ step = 0
    /\ hMatrix = NoMatrix
    /\ hfail = "none"
    /\ hpc = "ready"

\* no performWarp, applyFilters, detectDocumentEdges call is under way
WarpIdle ==
    /\ img = NoImage
    /\ targetWidth = 0
    /\ dstData = NoMatrix
    /\ wpc = "idle"

FilterIdle ==
    /\ surface = NoImage
    /\ settings = NoSettings
    /\ input = NoImage
    /\ toned = NoImage
    /\ fpc = "idle"

DetectIdle ==
    /\ dimg = NoImage
    /\ gray = NoMatrix
    /\ edges = NoMatrix
    /\ avgGradient = <<0, 0>>
    /\ found = NoMatrix
    /\ dresult = "none"
    /\ dpc = "idle"

\* no crop editor is mounted
CropIdle ==
    /\ initialCorners = Null
    /\ imgDimensions = <<0, 0>>
    /\ detected = Null
    /\ isValid = FALSE
    /\ corners = Null
    /\ isDetecting = FALSE
    /\ activeCorner = 0
    /\ cpc = "idle"

\* App renders no crop editor
NoEditor ==
    [mounted |-> FALSE, shown |-> Null, corners |-> Null, isDetecting |-> FALSE,
     timers |-> {}]

\* App is not mounted
AppIdle ==
    /\ appState = "UPLOAD"
    /\ sourceImage = Null
    /\ warpedImage = Null
    /\ isProcessing = FALSE
    /\ lastCorners = Null
    /\ readers = <<>>
    /\ confirms = <<>>
    /\ outcome = "none"
    /\ editor = NoEditor

\* ScannerProcessor.tsx lines 16-24
InitialSettings ==
    [threshold |-> 128, sharpness |-> 20, brightness |-> 10, contrast |-> 20,
     rotation |-> 0, margin |-> 0, mode |-> "enhanced"]

\* a canvas element as it is created: 300 x 150 and blank
NewCanvas == [width |-> 300, height |-> 150, content |-> <<>>]

\* no processor is mounted
ProcessorIdle ==
    /\ warpedImageSrc = <<0, 0>>
    /\ procSettings = InitialSettings
    /\ procIsProcessing = FALSE
    /\ printSrc = ""
    /\ canvas = NewCanvas
    /\ runs = <<>>

\* no component is mounted
UiIdle == CropIdle /\ AppIdle /\ ProcessorIdle

HInit ==
    /\ srcQuad \in UprightRects
    /\ dstQuad \in Quads
    /\ SolverReady
    /\ WarpIdle
    /\ FilterIdle
    /\ DetectIdle
    /\ UiIdle

\* computeHomography, lines 385-398: build A and B
BuildSystem ==
    /\ hpc = "ready"
    /\ A' = SystemA(srcQuad, dstQuad)
    /\ B' = SystemB(srcQuad, dstQuad)
    /\ step' = 1
    /\ hpc' = "eliminate"
    /\ UNCHANGED <<srcQuad, dstQuad, hMatrix, hfail, wvars, fvars, dvars, uvars>>

\* solveLinearSystem, lines 407-437: one iteration of the elimination loop:
\* choose the pivot row, swap it into place, eliminate below it
PivotStep ==
    /\ hpc = "eliminate"
    /\ \E maxRow \in {MaxRow(A, step)} :
        \E A1 \in {SwapRowsA(A, step, maxRow)}, B1 \in {SwapRowsB(B, step, maxRow)} :
            /\ A' = EliminateA(A1, step)
            /\ B' = EliminateB(A1, B1, step)
    /\ step' = step + 1
    /\ hpc' = IF step = 8 THEN "substitute" ELSE "eliminate"
    /\ UNCHANGED <<srcQuad, dstQuad, hMatrix, hfail, wvars, fvars, dvars, uvars>>

\* solveLinearSystem, lines 439-447, and computeHomography, line 401: the
\* solution followed by 1 is returned whatever the pivots were
Substitute ==
    /\ hpc = "substitute"
    /\ hMatrix' = BackSubstitute(A, B) \o <<Num(1)>>
    /\ hfail' = "none"
    /\ hpc' = "done"
    /\ UNCHANGED <<srcQuad, dstQuad, A, B, step, wvars, fvars, dvars, uvars>>

HNext == BuildSystem \/ PivotStep \/ Substitute

SpecHomography == HInit /\ [][HNext]_vars

(***************************************************************************)
(* Properties of the homography solver.                                    *)
(***************************************************************************)
\* twice the signed area of the triangle p, q, r
Cross(p, q, r) ==
    (q[1] - p[1]) * (r[2] - p[2]) - (q[2] - p[2]) * (r[1] - p[1])

\* three of the four points lie on one line (two equal points included)
Degenerate(q) ==
    \E i, j, k \in 1..4 : i < j /\ j < k /\ Cross(q[i], q[j], q[k]) = 0

AllFinite(h) == \A i \in 1..9 : IsFinite(h[i])

\* the image of the point p under h, performWarp lines 327-329
MapX(h, p) ==
    Div[Add[Add[Mul[h[1], Num(p[1])], Mul[h[2], Num(p[2])]], h[3]],
        Add[Add[Mul[h[7], Num(p[1])], Mul[h[8], Num(p[2])]], Num(1)]]

MapY(h, p) ==
    Div[Add[Add[Mul[h[4], Num(p[1])], Mul[h[5], Num(p[2])]], h[6]],
        Add[Add[Mul[h[7], Num(p[1])], Mul[h[8], Num(p[2])]], Num(1)]]

MapsQuad(h, src, dst) ==
    \A i \in 1..4 : /\ NumEq[MapX(h, src[i]), Num(dst[i][1])]
                     /\ NumEq[MapY(h, src[i]), Num(dst[i][2])]

IsIdentity(h) ==
    \A i \in 1..9 : NumEq[h[i], IF i \in {1, 5, 9} THEN Num(1) ELSE Zero(1)]

\* C5: when the source points are collinear or duplicated the solver reports
\* DegenerateTransform and returns no matrix holding NaN or Infinity.
C5_DegenerateRejected ==
    (hpc = "done" /\ Degenerate(srcQuad)) =>
        (hfail = "DegenerateTransform" /\ hMatrix = NoMatrix)

\* C6: solving a rectangle of non-zero width and height onto itself yields
\* the identity matrix [1,0,0,0,1,0,0,0,1].
C6_IdentityHomography ==
    (hpc = "done" /\ ~Degenerate(srcQuad) /\ dstQuad = srcQuad) =>
        IsIdentity(hMatrix)

C6_Witness ==
    /\ hpc = "done" /\ ~Degenerate(srcQuad) /\ dstQuad = srcQuad
    /\ srcQuad[1] # <<0, 0>>
    /\ IsIdentity(hMatrix)

Palette ==
    << <<0, 0, 0, 255>>, <<255, 255, 255, 255>>, <<30, 70, 210, 255>>,
       <<100, 240, 230, 128>>, <<0, 0, 0, 0>> >>

\* the colour of pixel (x, y) in the pattern <<first, dx, dy>>
PatternPixel(pat, x, y) ==
    Palette[((pat[1] + pat[2] * x + pat[3] * y) % Len(Palette)) + 1]

ImageOf(w, h, pat) ==
    [w |-> w, h |-> h,
     data |-> [i \in 0..(w * h * 4 - 1) |->
                 PatternPixel(pat, (i \div 4) % w, (i \div 4) \div w)[(i % 4) + 1]]]

(***************************************************************************)
(* performWarp(img, corners, targetWidth).  The 2D context is always       *)
(* obtained, so that line 309 does not throw.                              *)
(***************************************************************************)
\* line 302: Math.round(targetWidth / A4_RATIO), A4_RATIO = 210 / 297
TargetHeight(tw) == (2 * 297 * tw + 210) \div (2 * 210)

\* line 315: the source quadrilateral handed to computeHomography
TargetRect(tw) == Rect(0, 0, tw, TargetHeight(tw))

\* a slip: the upper bounds are tested with <=
InRange_Inclusive(sx, sy, w, h) ==
    /\ Ge[sx, Zero(1)] /\ Ge[Num(w - 1), sx]
    /\ Ge[sy, Zero(1)] /\ Ge[Num(h - 1), sy]

\* line 333
InRange(sx, sy, w, h) ==
    /\ Ge[sx, Zero(1)] /\ Lt(sx, Num(w - 1))
    /\ Ge[sy, Zero(1)] /\ Lt(sy, Num(h - 1))

\* a slip: the nearest integer, halves upwards, instead of the floor
Floor_Nearest(a) == (2 * a[2] + a[3]) \div (2 * a[3])

\* Math.floor of a finite number >= 0
Floor(a) == a[2] \div a[3]

\* srcData[i] in arithmetic: an index past the buffer reads undefined, NaN
SrcAt(data, i) == IF i \in DOMAIN data THEN Num(data[i]) ELSE NaN

\* the nearest integer to n / d, d > 0, ties to the even one
RoundHalfEven(n, d) ==
    LET q == n \div d
        r == n % d
    IN  IF 2 * r < d THEN q
        ELSE IF 2 * r > d THEN q + 1
        ELSE IF q % 2 = 0 THEN q ELSE q + 1

\* a store into a Uint8ClampedArray
ToUint8Clamp[v \in NumSet] ==
    IF IsNaN(v) \/ IsZero(v) \/ v[1] = -1 THEN 0
    ELSE IF IsInf(v) \/ v[2] >= 255 * v[3] THEN 255
    ELSE RoundHalfEven(v[2], v[3])

\* lines 335-338: the sample positions (x0,y0), (x1,y0), (x0,y1), (x1,y1)
SamplePoints(sx, sy) ==
    LET x0 == Floor(sx)
        x1 == x0 + 1
        y0 == Floor(sy)
        y1 == y0 + 1
    IN  <<<<x0, y0>>, <<x1, y0>>, <<x0, y1>>, <<x1, y1>>>>

\* lines 343-346: i00, i10, i01 and i11
SampleIndex(w, q) == (q[2] * w + q[1]) * 4

\* lines 340-341 and 350-353: the two factors of the weight of each of the
\* four samples
SampleWeights(sx, sy) ==
    LET wx == Sub(sx, Num(Floor(sx)))
        wy == Sub(sy, Num(Floor(sy)))
        one == Num(1)
    IN  <<<<Sub(one, wx), Sub(one, wy)>>, <<wx, Sub(one, wy)>>,
          <<Sub(one, wx), wy>>, <<wx, wy>>>>

\* lines 335-353: channel c of the bilinear sample at (sx, sy)
Bilinear(data, w, sx, sy, c) ==
    LET q == SamplePoints(sx, sy)
        f == SampleWeights(sx, sy)
        Term(k) == Mul[Mul[SrcAt(data, SampleIndex(w, q[k]) + c), f[k][1]], f[k][2]]
    IN  Add[Add[Add[Term(1), Term(2)], Term(3)], Term(4)]

\* a slip: the background leaves alpha as createImageData made it
Background_AlphaUnset == <<255, 255, 255, 0>>

\* lines 359-362
Background == <<255, 255, 255, 255>>

\* lines 327-363: the four bytes written for the destination pixel (x, y)
WarpPixel(h, image, x, y) ==
    LET Sample[sx \in NumSet, sy \in NumSet] ==
            IF InRange(sx, sy, image.w, image.h)
            THEN <<ToUint8Clamp[Bilinear(image.data, image.w, sx, sy, 0)],
                   ToUint8Clamp[Bilinear(image.data, image.w, sx, sy, 1)],
                   ToUint8Clamp[Bilinear(image.data, image.w, sx, sy, 2)],
                   255>>
            ELSE Background
    IN  Sample[MapX(h, <<x, y>>), MapY(h, <<x, y>>)]

\* lines 325-365: the whole pixel loop
WarpOutput(h, image, tw) ==
    [i \in 0..(tw * TargetHeight(tw) * 4 - 1) |->
        WarpPixel(h, image, (i \div 4) % tw, (i \div 4) \div tw)[(i % 4) + 1]]

\* the source images of the warp: the two largest widths and heights
WarpImages ==
    {ImageOf(w, h, <<0, 1, 2>>) : w \in (MaxSide - 1)..MaxSide,
                                  h \in (MaxSide - 1)..MaxSide}

WInit ==
    /\ img \in WarpImages
    /\ targetWidth \in 1..MaxTarget
    /\ dstQuad \in Quads
    /\ srcQuad = TargetRect(targetWidth)
    /\ SolverReady
    /\ dstData = NoMatrix
    /\ wpc = "solve"
    /\ FilterIdle
    /\ DetectIdle
    /\ UiIdle

\* performWarp, lines 319-367, once computeHomography has returned
PixelLoop ==
    /\ wpc = "solve"
    /\ hpc = "done"
    /\ dstData' = WarpOutput(hMatrix, img, targetWidth)
    /\ wpc' = "done"
    /\ UNCHANGED <<hvars, img, targetWidth, fvars, dvars, uvars>>

WNext == BuildSystem \/ PivotStep \/ Substitute \/ PixelLoop

SpecWarp == WInit /\ [][WNext]_vars

\* performWarp runs to completion once called: nothing else is scheduled
\* between its statements
SpecWarpRun == WInit /\ [][WNext]_vars /\ WF_vars(WNext)

(***************************************************************************)
(* Properties of the warp.                                                 *)
(***************************************************************************)
TargetPixels == (0..(targetWidth - 1)) \X (0..(TargetHeight(targetWidth) - 1))

\* (sx, sy) is a source coordinate outside [0, w-1) x [0, h-1)
Outside(sx, sy, w, h) ==
    /\ ~IsNaN(sx) /\ ~IsNaN(sy)
    /\ \/ Lt(sx, Zero(1)) \/ Ge[sx, Num(w - 1)]
       \/ Lt(sy, Zero(1)) \/ Ge[sy, Num(h - 1)]

AllOutside ==
    \A p \in TargetPixels :
        Outside(MapX(hMatrix, p), MapY(hMatrix, p), img.w, img.h)

\* C8: when the homography maps every destination pixel outside
\* [0,srcWidth-1) x [0,srcHeight-1), every output pixel is (255,255,255,255).
C8_BackgroundFill ==
    (wpc = "done" /\ AllOutside) =>
        (\A i \in DOMAIN dstData : dstData[i] = 255)

C8_Witness ==
    /\ wpc = "done" /\ AllOutside
    /\ AllFinite(hMatrix)
    /\ ~Degenerate(dstQuad)
    /\ \E p \in TargetPixels :
          /\ NumEq[MapX(hMatrix, p), Num(img.w - 1)]
          /\ Ge[MapY(hMatrix, p), Zero(1)] /\ Lt(MapY(hMatrix, p), Num(img.h - 1))
    /\ \A i \in DOMAIN dstData : dstData[i] = 255

\* the pixel loop has written every byte of the output and every alpha is 255
WarpCompleted ==
    /\ wpc = "done"
    /\ DOMAIN dstData = 0..(targetWidth * TargetHeight(targetWidth) * 4 - 1)
    /\ \A i \in DOMAIN dstData : (i % 4 = 3) => dstData[i] = 255

\* C9: whatever the 4 corners are, those that make the homography hold NaN
\* or Infinity included, performWarp reaches the end of its pixel loop, and
\* when it has, every output pixel is written and has alpha 255.
C9_WarpAlwaysSucceeds ==
    /\ <>(wpc = "done")
    /\ [](wpc = "done" => WarpCompleted)

C9_Witness ==
    /\ wpc = "done"
    /\ ~AllFinite(hMatrix)
    /\ \A i \in DOMAIN dstData : (i % 4 = 3) => dstData[i] = 255

\* the destination pixels whose source coordinates pass the test of line 333
SampledPixels ==
    {p \in TargetPixels : InRange(MapX(hMatrix, p), MapY(hMatrix, p), img.w, img.h)}

\* the weight of the k-th sample at (sx, sy)
Weight(sx, sy, k) == Mul[SampleWeights(sx, sy)[k][1], SampleWeights(sx, sy)[k][2]]

\* C24: whenever the in-range test 0 <= srcX < srcWidth-1 and
\* 0 <= srcY < srcHeight-1 passes, the four bilinear sample positions
\* (x0,y0), (x1,y0), (x0,y1), (x1,y1) lie inside the source image, so that
\* every source-buffer index read is within [0, srcWidth*srcHeight*4), and
\* the four weights are non-negative and sum to 1.
C24_SamplesInsideSource ==
    (wpc = "done") =>
        \A p \in SampledPixels :
            LET sx == MapX(hMatrix, p)
                sy == MapY(hMatrix, p)
            IN  /\ \A k \in 1..4 :
                      /\ SamplePoints(sx, sy)[k][1] \in 0..(img.w - 1)
                      /\ SamplePoints(sx, sy)[k][2] \in 0..(img.h - 1)
                      /\ \A c \in 0..2 :
                            /\ SampleIndex(img.w, SamplePoints(sx, sy)[k]) + c >= 0
                            /\ SampleIndex(img.w, SamplePoints(sx, sy)[k]) + c
                                  < img.w * img.h * 4
                      /\ Ge[Weight(sx, sy, k), Num(0)]
                /\ NumEq[Add[Add[Add[Weight(sx, sy, 1), Weight(sx, sy, 2)],
                                 Weight(sx, sy, 3)], Weight(sx, sy, 4)], Num(1)]

\* the warp has sampled a pixel strictly between two columns and two rows of
\* the source, the right one being the last column
C24_Witness ==
    /\ wpc = "done"
    /\ \E p \in SampledPixels :
          LET sx == MapX(hMatrix, p)
              sy == MapY(hMatrix, p)
          IN  /\ SamplePoints(sx, sy)[4][1] = img.w - 1
              /\ Gt[Weight(sx, sy, 4), Num(0)]
              /\ Gt[Weight(sx, sy, 1), Num(0)]

(***************************************************************************)
(* applyFilters(ctx, width, height, settings) and applySharpen.  The       *)
(* canvas is taken to hand back the bytes that were put.  The arithmetic   *)
(* is exact where the code's is in doubles.                                *)
(***************************************************************************)
\* Math.min and Math.max on two numbers
MathMin[a \in NumSet, b \in NumSet] ==
    IF IsNaN(a) \/ IsNaN(b) THEN NaN
    ELSE IF IsZero(a) /\ IsZero(b)
         THEN (IF a[1] = -1 \/ b[1] = -1 THEN Zero(-1) ELSE Zero(1))
    ELSE IF Gt[a, b] THEN b ELSE a

MathMax[a \in NumSet, b \in NumSet] ==
    IF IsNaN(a) \/ IsNaN(b) THEN NaN
    ELSE IF IsZero(a) /\ IsZero(b)
         THEN (IF a[1] = 1 \/ b[1] = 1 THEN Zero(1) ELSE Zero(-1))
    ELSE IF Gt[b, a] THEN b ELSE a

\* lines 187-188
contrastFactor(s) ==
    LET contrast == Mul[Num(s.contrast), Frac(3, 2)]
    IN  Div[Mul[Num(259), Add[contrast, Num(255)]],
            Mul[Num(255), Sub(Num(259), contrast)]]

\* line 190
brightness(s) == Mul[Num(s.brightness), Frac(3, 2)]

\* lines 199, 207: 0.299 * r + 0.587 * g + 0.114 * b
Luminance(rgb) ==
    Add[Add[Mul[Frac(299, 1000), rgb[1]], Mul[Frac(587, 1000), rgb[2]]],
        Mul[Frac(114, 1000), rgb[3]]]

\* lines 198-201: r = g = b = gray
GrayStage(rgb, s) ==
    IF s.mode \in {"grayscale", "binary"}
    THEN LET g == Luminance(rgb) IN <<g, g, g>>
    ELSE rgb

\* lines 210-217: the S-curve on the luminance
NewLum[lum \in NumSet] ==
    IF Gt[lum, Num(180)]
    THEN MathMin[Num(255), Add[lum, Mul[Sub(lum, Num(180)), Frac(12, 10)]]]
    ELSE IF Lt(lum, Num(100))
         THEN MathMax[Num(0), Sub(lum, Mul[Sub(Num(100), lum), Frac(1, 2)])]
         ELSE lum

\* lines 204-227
EnhanceStage(rgb, s) ==
    LET lum == Luminance(rgb)
        ratio == Div[NewLum[lum], lum]
    IN  IF s.mode = "enhanced" /\ Gt[lum, Num(0)]
        THEN <<Mul[rgb[1], ratio], Mul[rgb[2], ratio], Mul[rgb[3], ratio]>>
        ELSE rgb

\* lines 231-233, cf and br being contrastFactor and brightness
ContrastChannel(v, cf, br) == Add[Add[Mul[cf, Sub(v, Num(128))], Num(128)], br]

ContrastStage(rgb, cf, br) ==
    <<ContrastChannel(rgb[1], cf, br), ContrastChannel(rgb[2], cf, br),
      ContrastChannel(rgb[3], cf, br)>>

\* lines 236-240
BinaryStage(rgb, s) ==
    IF s.mode = "binary"
    THEN LET v == Div[Add[Add[rgb[1], rgb[2]], rgb[3]], Num(3)]
             bin == IF Ge[v, Num(s.threshold)] THEN Num(255) ELSE Num(0)
         IN  <<bin, bin, bin>>
    ELSE rgb

\* lines 193-240: r, g, b of one pixel before the final clamp
ToneRaw(px, s) ==
    BinaryStage(
        ContrastStage(
            EnhanceStage(GrayStage(<<Num(px[1]), Num(px[2]), Num(px[3])>>, s), s),
            contrastFactor(s), brightness(s)),
        s)

\* the nearest integer to a finite number, ties to the even one
RoundNum[v \in NumSet] ==
    IF v[1] = 1 THEN RoundHalfEven(v[2], v[3]) ELSE -RoundHalfEven(v[2], v[3])

\* a slip: the value is rounded to an integer but neither clamped by
\* Math.max / Math.min nor stored in a clamping array
StoreChannel_Unclamped(v) == RoundNum[v]

\* lines 243-245 and 286: data[i] = Math.max(0, Math.min(255, v)), a store
\* into a Uint8ClampedArray
StoreChannel(v) == ToUint8Clamp[MathMax[Num(0), MathMin[Num(255), v]]]

\* lines 192-246: the four bytes of a pixel after the loop body; alpha is
\* not written
TonePixel(px, s) ==
    LET raw == ToneRaw(px, s)
    IN  <<StoreChannel(raw[1]), StoreChannel(raw[2]), StoreChannel(raw[3]), px[4]>>

PixelAt(data, p) ==
    <<data[4 * p], data[4 * p + 1], data[4 * p + 2], data[4 * p + 3]>>

\* lines 192-246: the bytes of the pixels p, p+1, .. in order
RECURSIVE ToneBytes(_, _, _)
ToneBytes(sf, s, p) ==
    IF p >= sf.w * sf.h THEN <<>>
    ELSE TonePixel(PixelAt(sf.data, p), s) \o ToneBytes(sf, s, p + 1)

\* lines 183-248: the canvas after putImageData
TonePass(sf, s) ==
    LET bytes == ToneBytes(sf, s, 0)
    IN  [sf EXCEPT !.data = [i \in DOMAIN sf.data |-> bytes[i + 1]]]

\* lines 279-283: the kernel 0 -1 0 / -1 5 -1 / 0 -1 0 on channel c
Convolve(src, w, idx, c) ==
    src[idx + c] * 5 - src[idx + c - 4] - src[idx + c + 4]
        - src[idx + c - 4 * w] - src[idx + c + 4 * w]

\* a slip: the blend moves away from the convolved value
Blend_Inverted(original, val, amount) ==
    Sub(Num(original), Mul[Num(val - original), amount])

\* line 286: original + (val - original) * amount
Blend(original, val, amount) ==
    Add[Num(original), Mul[Num(val - original), amount]]

\* lines 266-267: the pixels the loops of applySharpen visit
Interior(x, y, w, h) == x >= 1 /\ x < w - 1 /\ y >= 1 /\ y < h - 1

\* lines 259-291: the canvas after putImageData(buff): buff is created
\* transparent black and only the interior pixels are written
applySharpen(sf, amount) ==
    [sf EXCEPT !.data =
        [i \in DOMAIN sf.data |->
            LET x == (i \div 4) % sf.w
                y == (i \div 4) \div sf.w
                c == i % 4
                idx == i - c
            IN  IF ~Interior(x, y, sf.w, sf.h) THEN 0
                ELSE IF c = 3 THEN sf.data[idx + 3]
                ELSE StoreChannel(Blend(sf.data[idx + c],
                                        Convolve(sf.data, sf.w, idx, c), amount))]]

\* a slip: the pass also runs at sharpness 0
SharpenRuns_AtZero(s) == s.sharpness >= 0

\* line 251
SharpenRuns(s) == s.sharpness > 0

Modes == {"original", "grayscale", "binary", "enhanced"}

\* ProcessorSettings within the declared ranges: the ends of each range and
\* a value inside it
SettingsSet ==
    [mode : Modes, threshold : {0, 128, 255}, sharpness : {0, 50, 100},
     brightness : {-100, 10, 100}, contrast : {-100, 0, 100}]

FilterPatterns == {<<0, 1, 2>>, <<2, 1, 1>>}

\* the canvases applyFilters is called on
FilterSurfaces ==
    {ImageOf(w, h, pat) : w \in MaxSide..(MaxSide + 1),
                          h \in MaxSide..(MaxSide + 1),
                          pat \in FilterPatterns}

FInit ==
    /\ surface \in FilterSurfaces
    /\ settings \in SettingsSet
    /\ input = surface
    /\ toned = NoImage
    /\ fpc = "tone"
    /\ srcQuad = NoMatrix
    /\ dstQuad = NoMatrix
    /\ SolverReady
    /\ WarpIdle
    /\ DetectIdle
    /\ UiIdle

\* applyFilters, lines 183-248: the per-pixel pass and putImageData
TonePassDone ==
    /\ fpc = "tone"
    /\ surface' = TonePass(surface, settings)
    /\ toned' = surface'
    /\ fpc' = "sharpen"
    /\ UNCHANGED <<settings, input, hvars, wvars, dvars, uvars>>

\* applyFilters, lines 251-253: the sharpen pass
Sharpen ==
    /\ fpc = "sharpen"
    /\ SharpenRuns(settings)
    /\ surface' = applySharpen(surface, Frac(settings.sharpness, 100))
    /\ fpc' = "done"
    /\ UNCHANGED <<settings, input, toned, hvars, wvars, dvars, uvars>>

\* applyFilters, line 251: the test fails and the function returns
ReturnUnsharpened ==
    /\ fpc = "sharpen"
    /\ ~SharpenRuns(settings)
    /\ fpc' = "done"
    /\ UNCHANGED <<surface, settings, input, toned, hvars, wvars, dvars, uvars>>

FNext == TonePassDone \/ Sharpen \/ ReturnUnsharpened

SpecFilter == FInit /\ [][FNext]_vars

(***************************************************************************)
(* Properties of the filter pipeline.                                      *)
(***************************************************************************)
Bytes == DOMAIN surface.data

\* some channel of some pixel leaves the per-pixel arithmetic above 255 and
\* another one below 0
ClampNeeded ==
    /\ \E p \in 0..(input.w * input.h - 1), c \in 1..3 :
          Gt[ToneRaw(PixelAt(input.data, p), settings)[c], Num(255)]
    /\ \E p \in 0..(input.w * input.h - 1), c \in 1..3 :
          Lt(ToneRaw(PixelAt(input.data, p), settings)[c], Num(0))

C2_BinaryPurity ==
    (fpc = "done" /\ settings.mode = "binary") =>
        (\A p \in 0..(surface.w * surface.h - 1) :
            /\ surface.data[4 * p] \in {0, 255}
            /\ surface.data[4 * p + 1] = surface.data[4 * p]
            /\ surface.data[4 * p + 2] = surface.data[4 * p])

\* the sharpen pass ran on a thresholded image with a white interior pixel
\* next to a black pixel
C2_Witness ==
    /\ fpc = "done" /\ settings.mode = "binary" /\ settings.sharpness > 0
    /\ \E p \in 0..(surface.w * surface.h - 1) :
          /\ Interior(p % surface.w, p \div surface.w, surface.w, surface.h)
          /\ toned.data[4 * p] = 255
          /\ toned.data[4 * p - 4] = 0
          /\ surface.data[4 * p] = 255

\* C3: when settings.sharpness = 0 the sharpen pass does not run: the final
\* surface is identical, pixel for pixel and channel for channel, to the
\* surface the per-pixel tone pass produced.
C3_SharpenNoOp ==
    (fpc = "done" /\ settings.sharpness = 0) => (surface = toned)

\* sharpness is 0 on a surface that the sharpen pass would have changed
C3_Witness ==
    /\ fpc = "done" /\ settings.sharpness = 0
    /\ surface = toned
    /\ toned # input
    /\ applySharpen(toned, Frac(0, 100)) # toned

\* C4: for every pixel of the surface, border pixels included, and every
\* settings value, sharpness > 0 included, the alpha channel after
\* applyFilters equals the alpha channel before it.
C4_AlphaUnchanged ==
    (fpc = "done") =>
        (\A i \in Bytes : (i % 4 = 3) => surface.data[i] = input.data[i])

\* C18: the sharpen pass excludes the 1-pixel border: when sharpness > 0,
\* every pixel on the outermost row or column of the surface has the same
\* R, G and B values after applyFilters as it had after the tone pass.
C18_BorderRgbKept ==
    (fpc = "done" /\ settings.sharpness > 0) =>
        (\A i \in Bytes :
            (/\ i % 4 # 3
             /\ ~Interior((i \div 4) % surface.w, (i \div 4) \div surface.w,
                          surface.w, surface.h))
            => surface.data[i] = toned.data[i])

(***************************************************************************)
(* detectDocumentEdges(img), preprocessImage and applySobel.  The images   *)
(* of the model are at most 512 pixels wide and high, so that scale is 1,  *)
(* sw = w, sh = h and drawImage copies the pixels.  Math.sqrt is computed  *)
(* to 1/16: totalMag is a whole number of sixteenths.  The 2D context is   *)
(* always obtained.                                                        *)
(***************************************************************************)
\* lines 60-61: the initial value of minSum and minDiff, above every x + y
Infinity == 1000000

\* lines 108-113: tempGray[i], a Uint8ClampedArray element
tempGray(src, i) ==
    RoundHalfEven(299 * src[4 * i] + 587 * src[4 * i + 1] + 114 * src[4 * i + 2], 1000)

\* lines 119-131: the 3x3 box sum around (x, y) and the stored mean
BoxSum(src, w, x, y) ==
    tempGray(src, (y - 1) * w + (x - 1)) + tempGray(src, (y - 1) * w + x)
        + tempGray(src, (y - 1) * w + (x + 1))
        + tempGray(src, y * w + (x - 1)) + tempGray(src, y * w + x)
        + tempGray(src, y * w + (x + 1))
        + tempGray(src, (y + 1) * w + (x - 1)) + tempGray(src, (y + 1) * w + x)
        + tempGray(src, (y + 1) * w + (x + 1))

\* lines 105-134: dst after preprocessImage; the outer pixels are skipped and
\* keep the 0 the array was created with
preprocessImage(src, w, h) ==
    [i \in 0..(w * h - 1) |->
        IF Interior(i % w, i \div w, w, h)
        THEN RoundHalfEven(BoxSum(src, w, i % w, i \div w), 9)
        ELSE 0]

\* lines 150-153
Gx(g, w, x, y) ==
    -g[(y - 1) * w + (x - 1)] + g[(y - 1) * w + (x + 1)]
        - 2 * g[y * w + (x - 1)] + 2 * g[y * w + (x + 1)]
        - g[(y + 1) * w + (x - 1)] + g[(y + 1) * w + (x + 1)]

\* lines 159-161
Gy(g, w, x, y) ==
    -g[(y - 1) * w + (x - 1)] - 2 * g[(y - 1) * w + x] - g[(y - 1) * w + (x + 1)]
        + g[(y + 1) * w + (x - 1)] + 2 * g[(y + 1) * w + x]
        + g[(y + 1) * w + (x + 1)]

\* gx*gx + gy*gy of line 163
MagSquared(g, w, x, y) ==
    Gx(g, w, x, y) * Gx(g, w, x, y) + Gy(g, w, x, y) * Gy(g, w, x, y)

\* the largest r with r * r <= n, for n below 2^30
ISqrt(n) ==
    LET Search[lo \in Nat, hi \in Nat] ==
            IF lo >= hi THEN lo
            ELSE IF ((lo + hi + 1) \div 2) * ((lo + hi + 1) \div 2) <= n
                 THEN Search[(lo + hi + 1) \div 2, hi]
                 ELSE Search[lo, ((lo + hi + 1) \div 2) - 1]
    IN  Search[0, 32767]

\* line 163: mag, in sixteenths
Mag16(g, w, x, y) == ISqrt(256 * MagSquared(g, w, x, y))

\* line 164: edges[y*w + x] = mag, a store into a Uint8Array: the integer
\* part modulo 256
StoreEdge(g, w, x, y) == ISqrt(MagSquared(g, w, x, y)) % 256

\* lines 140-171: edges after applySobel
SobelEdges(g, w, h) ==
    [i \in 0..(w * h - 1) |->
        IF Interior(i % w, i \div w, w, h) THEN StoreEdge(g, w, i % w, i \div w)
        ELSE 0]

\* lines 166-167: totalMag over the pixels (x, y), (x+1, y), .. of row y
RECURSIVE RowMag(_, _, _, _)
RowMag(g, w, x, y) ==
    IF x >= w - 1 THEN 0 ELSE Mag16(g, w, x, y) + RowMag(g, w, x + 1, y)

\* totalMag over the rows y, y+1, ..
RECURSIVE TotalMag(_, _, _, _)
TotalMag(g, w, h, y) ==
    IF y >= h - 1 THEN 0 ELSE RowMag(g, w, 1, y) + TotalMag(g, w, h, y + 1)

\* count of line 167 when the loops end
SobelCount(w, h) == IF w > 2 /\ h > 2 THEN (w - 2) * (h - 2) ELSE 0

\* lines 53 and 73: edges[idx] > Math.max(30, avgGradient * 2.5), where
\* avgGradient is totalMag / count, or 0 when count is 0 (line 170)
ExceedsThreshold(e, avg) ==
    /\ e > 30
    /\ avg[2] > 0 => 32 * avg[2] * e > 5 * avg[1]

\* line 58
Margin(sw, sh) == (IF sw < sh THEN sw ELSE sh) \div 20

\* lines 60-68
ScanStart(sw, sh) ==
    [foundPixels |-> 0,
     minSum |-> Infinity, maxSum |-> -Infinity,
     minDiff |-> Infinity, maxDiff |-> -Infinity,
     tl |-> <<0, 0>>, tr |-> <<sw, 0>>, br |-> <<sw, sh>>, bl |-> <<0, sh>>]

ScanStates ==
    [foundPixels : Nat, minSum : Int, maxSum : Int, minDiff : Int, maxDiff : Int,
     tl : Nat \X Nat, tr : Nat \X Nat, br : Nat \X Nat, bl : Nat \X Nat]

\* a slip: the comparisons also accept an equal value, so that the last
\* pixel that attains an extremum is kept
ScanPixel_LastWins(acc, x, y) ==
    [foundPixels |-> acc.foundPixels + 1,
     minSum |-> IF x + y <= acc.minSum THEN x + y ELSE acc.minSum,
     tl |-> IF x + y <= acc.minSum THEN <<x, y>> ELSE acc.tl,
     maxSum |-> IF x + y >= acc.maxSum THEN x + y ELSE acc.maxSum,
     br |-> IF x + y >= acc.maxSum THEN <<x, y>> ELSE acc.br,
     minDiff |-> IF x - y <= acc.minDiff THEN x - y ELSE acc.minDiff,
     bl |-> IF x - y <= acc.minDiff THEN <<x, y>> ELSE acc.bl,
     maxDiff |-> IF x - y >= acc.maxDiff THEN x - y ELSE acc.maxDiff,
     tr |-> IF x - y >= acc.maxDiff THEN <<x, y>> ELSE acc.tr]

\* lines 74-81: the body of the test for a qualifying pixel (x, y)
ScanPixel(acc, x, y) ==
    [foundPixels |-> acc.foundPixels + 1,
     minSum |-> IF x + y < acc.minSum THEN x + y ELSE acc.minSum,
     tl |-> IF x + y < acc.minSum THEN <<x, y>> ELSE acc.tl,
     maxSum |-> IF x + y > acc.maxSum THEN x + y ELSE acc.maxSum,
     br |-> IF x + y > acc.maxSum THEN <<x, y>> ELSE acc.br,
     minDiff |-> IF x - y < acc.minDiff THEN x - y ELSE acc.minDiff,
     bl |-> IF x - y < acc.minDiff THEN <<x, y>> ELSE acc.bl,
     maxDiff |-> IF x - y > acc.maxDiff THEN x - y ELSE acc.maxDiff,
     tr |-> IF x - y > acc.maxDiff THEN <<x, y>> ELSE acc.tr]

\* lines 70-84: the two loops, row by row
ScanLoop(e, avg, sw, sh) ==
    LET m == Margin(sw, sh)
        Row[y \in Nat, x \in Nat, acc \in ScanStates] ==
            IF x >= sw - m THEN acc
            ELSE Row[y, x + 1,
                     IF ExceedsThreshold(e[y * sw + x], avg)
                     THEN ScanPixel(acc, x, y) ELSE acc]
        Rows[y \in Nat, acc \in ScanStates] ==
            IF y >= sh - m THEN acc ELSE Rows[y + 1, Row[y, m, acc]]
    IN  Rows[m, ScanStart(sw, sh)]

\* the image of w x h pixels of the colour px
UniformImage(w, h, px) ==
    [w |-> w, h |-> h, data |-> [i \in 0..(w * h * 4 - 1) |-> px[(i % 4) + 1]]]

\* a white page on black: the pixels of the middle half, each way, are white
PageImage(w, h) ==
    [w |-> w, h |-> h,
     data |-> [i \in 0..(w * h * 4 - 1) |->
                 IF i % 4 = 3 THEN 255
                 ELSE IF /\ 4 * ((i \div 4) % w) >= w /\ 4 * ((i \div 4) % w) < 3 * w
                         /\ 4 * ((i \div 4) \div w) >= h /\ 4 * ((i \div 4) \div w) < 3 * h
                      THEN 255 ELSE 0]]

DetectSides == {3, 10, 11, 20, 40}

DetectColours ==
    {<<0, 0, 0, 255>>, <<50, 50, 50, 255>>, <<30, 70, 210, 255>>, <<255, 255, 255, 255>>}

\* two grey dots on black, at (1, 1) and at (w-2, h-2): after the blur each
\* gives one pixel inside the margin whose gradient exceeds the threshold
DotsImage(w, h) ==
    [w |-> w, h |-> h,
     data |-> [i \in 0..(w * h * 4 - 1) |->
                 IF i % 4 = 3 THEN 255
                 ELSE IF (i \div 4) \in {w + 1, (h - 2) * w + (w - 2)} THEN 72 ELSE 0]]

DetectImages ==
    {UniformImage(w, h, px) : w \in DetectSides, h \in DetectSides, px \in DetectColours}
        \cup {PageImage(w, h) : w \in DetectSides, h \in DetectSides}
        \cup {DotsImage(10, 10), DotsImage(47, 47)}

DInit ==
    /\ dimg \in DetectImages
    /\ gray = NoMatrix
    /\ edges = NoMatrix
    /\ avgGradient = <<0, 0>>
    /\ found = NoMatrix
    /\ dresult = "none"
    /\ dpc = "blur"
    /\ srcQuad = NoMatrix
    /\ dstQuad = NoMatrix
    /\ SolverReady
    /\ WarpIdle
    /\ FilterIdle
    /\ UiIdle

\* detectDocumentEdges, lines 39-44
Preprocess ==
    /\ dpc = "blur"
    /\ gray' = preprocessImage(dimg.data, dimg.w, dimg.h)
    /\ dpc' = "sobel"
    /\ UNCHANGED <<dimg, edges, avgGradient, found, dresult, hvars, wvars, fvars, uvars>>

\* detectDocumentEdges, lines 47-49
Sobel ==
    /\ dpc = "sobel"
    /\ edges' = SobelEdges(gray, dimg.w, dimg.h)
    /\ avgGradient' = <<TotalMag(gray, dimg.w, dimg.h, 1), SobelCount(dimg.w, dimg.h)>>
    /\ dpc' = "scan"
    /\ UNCHANGED <<dimg, gray, found, dresult, hvars, wvars, fvars, uvars>>

\* a slip: the count is compared with 0.1% of the pixels inside the margin
TooFewPixels_OfScannedArea(f, sw, sh) ==
    f.foundPixels * 1000 < (sw - 2 * Margin(sw, sh)) * (sh - 2 * Margin(sw, sh))

\* line 87: foundPixels < sw * sh * 0.001
TooFewPixels(f, sw, sh) == f.foundPixels * 1000 < sw * sh

\* lines 87-99: what is returned after the loops; unscale is 1
DetectResult(f, sw, sh) ==
    IF TooFewPixels(f, sw, sh) THEN "null" ELSE <<f.tl, f.tr, f.br, f.bl>>

\* detectDocumentEdges, lines 53-99
Scan ==
    /\ dpc = "scan"
    /\ found' = ScanLoop(edges, avgGradient, dimg.w, dimg.h)
    /\ dresult' = DetectResult(found', dimg.w, dimg.h)
    /\ dpc' = "done"
    /\ UNCHANGED <<dimg, gray, edges, avgGradient, hvars, wvars, fvars, uvars>>

DNext == Preprocess \/ Sobel \/ Scan

SpecDetect == DInit /\ [][DNext]_vars

(***************************************************************************)
(* Properties of the detection.                                            *)
(***************************************************************************)
\* all pixels have the colour of the first one
IsUniform(image) ==
    \A i \in DOMAIN image.data : image.data[i] = image.data[i % 4]

\* the number of pixels the loops of lines 70-71 visit
ScannedArea(sw, sh) == (sw - 2 * Margin(sw, sh)) * (sh - 2 * Margin(sw, sh))

\* C15 as claimed: detectDocumentEdges returns null exactly when the number
\* of qualifying edge pixels is below 0.1% of the number of pixels in the
\* scanned area, the (sw-2*margin)*(sh-2*margin) pixels inside the 5% margin.
C15_NullBelowScannedShare ==
    (dpc = "done") =>
        ((dresult = "null") <=>
            (found.foundPixels * 1000 < ScannedArea(dimg.w, dimg.h)))

\* C15 as amended: detectDocumentEdges returns null exactly when the number
\* of qualifying edge pixels is below 0.1% of the number of pixels of the
\* whole downscaled image, sw*sh.
C15_NullBelowImageShare ==
    (dpc = "done") =>
        ((dresult = "null") <=> (found.foundPixels * 1000 < dimg.w * dimg.h))

\* null is returned although the count is not below 0.1% of the scanned area
C15_Witness ==
    /\ dpc = "done"
    /\ dresult = "null"
    /\ found.foundPixels > 0
    /\ found.foundPixels * 1000 >= ScannedArea(dimg.w, dimg.h)

\* the magnitude sqrt(Gx^2 + Gy^2) at (x, y) exceeds max(30, avgGradient * 2.5);
\* the magnitude and avgGradient are taken to 1/16
MagnitudeExceeds(g, w, x, y, avg) ==
    /\ MagSquared(g, w, x, y) > 30 * 30
    /\ avg[2] > 0 => 2 * avg[2] * Mag16(g, w, x, y) > 5 * avg[1]

\* the scanned pixels that have a gradient and whose magnitude exceeds the
\* threshold
StrongPixels ==
    {p \in (Margin(dimg.w, dimg.h)..(dimg.w - Margin(dimg.w, dimg.h) - 1))
             \X (Margin(dimg.w, dimg.h)..(dimg.h - Margin(dimg.w, dimg.h) - 1)) :
        /\ Interior(p[1], p[2], dimg.w, dimg.h)
        /\ MagnitudeExceeds(gray, dimg.w, p[1], p[2], avgGradient)}

\* C16: a scanned pixel is counted as qualifying exactly when its Sobel
\* gradient magnitude sqrt(Gx^2+Gy^2) exceeds the adaptive threshold
\* max(30, avgGradient*2.5), for every magnitude the Sobel kernels can
\* produce on 8-bit grayscale input: the count is the number of such pixels.
C16_CountsStrongPixels ==
    (dpc = "done") => (found.foundPixels = Cardinality(StrongPixels))

\* the pixels the scan counts: those inside the margin whose stored edge
\* value exceeds the threshold (lines 70-73)
Qualifying ==
    {p \in (Margin(dimg.w, dimg.h)..(dimg.w - Margin(dimg.w, dimg.h) - 1))
             \X (Margin(dimg.w, dimg.h)..(dimg.h - Margin(dimg.w, dimg.h) - 1)) :
        ExceedsThreshold(edges[p[2] * dimg.w + p[1]], avgGradient)}

\* p comes before q in row-major order
ScannedBefore(p, q) == p[2] < q[2] \/ (p[2] = q[2] /\ p[1] < q[1])

\* the first pixel in scan order among those of S
FirstScanned(S) == CHOOSE p \in S : \A q \in S \ {p} : ScannedBefore(p, q)

\* the first pixel in scan order among those of S with the least x + k*y
\* (k = 1: the sum, k = -1: the difference)
FirstLeast(S, k) ==
    FirstScanned({p \in S : \A q \in S : p[1] + k * p[2] <= q[1] + k * q[2]})

\* the same with the greatest x + k*y
FirstGreatest(S, k) ==
    FirstScanned({p \in S : \A q \in S : p[1] + k * p[2] >= q[1] + k * q[2]})

\* C17: when detection succeeds the returned quadrilateral is [topLeft,
\* topRight, bottomRight, bottomLeft], where topLeft minimises x+y,
\* bottomRight maximises x+y, bottomLeft minimises x-y and topRight
\* maximises x-y over the qualifying pixels, and among the pixels tied for an
\* extremum the first one in row-major scan order is the one returned.
C17_ExtremePointsFirstWins ==
    (dpc = "done" /\ dresult # "null") =>
        dresult = <<FirstLeast(Qualifying, 1), FirstGreatest(Qualifying, -1),
                    FirstGreatest(Qualifying, 1), FirstLeast(Qualifying, -1)>>

\* detection succeeded where two qualifying pixels are tied for the greatest
\* x-y and the later one in scan order was not returned
C17_Witness ==
    /\ dpc = "done" /\ dresult # "null"
    /\ \E q \in Qualifying :
          /\ q # dresult[2]
          /\ q[1] - q[2] = dresult[2][1] - dresult[2][2]
          /\ ScannedBefore(dresult[2], q)

\* C10: for every uniform solid-colour image, of any colour and any width and
\* height, detectDocumentEdges returns null.
C10_UniformNotFound ==
    (dpc = "done" /\ IsUniform(dimg)) => (dresult = "null")


(***************************************************************************)
(* CropEditor: validateDetection(corners, w, h).  The corners are those    *)
(* detectDocumentEdges returns for an image of at most 512 pixels each     *)
(* way: whole numbers.                                                     *)
(***************************************************************************)
\* CropEditor.tsx lines 78-82: area after the loop, from index i on
RECURSIVE ShoelaceSum(_, _)
ShoelaceSum(cs, i) ==
    IF i >= Len(cs) THEN 0
    ELSE LET p == cs[i + 1]
             q == cs[((i + 1) % Len(cs)) + 1]
         IN  (p[1] * q[2] - q[1] * p[2]) + ShoelaceSum(cs, i + 1)

\* a slip: the bounds are accepted
RatioInRange_Inclusive(ratio) ==
    Ge[ratio, Frac(5, 100)] /\ Ge[Frac(98, 100), ratio]

\* CropEditor.tsx line 89
RatioInRange(ratio) ==
    Gt[ratio, Frac(5, 100)] /\ Lt(ratio, Frac(98, 100))

\* CropEditor.tsx lines 75-90
validateDetection(cs, w, h) ==
    LET area == Div[Abs[Num(ShoelaceSum(cs, 0))], Num(2)]
        imageArea == Num(w * h)
        ratio == Div[area, imageArea]
    IN  RatioInRange(ratio)

\* the images validateDetection is called for: the small ones, one on which
\* a quadrilateral of the grid covers exactly 5%, and 1000 x 1000
ValidateSizes ==
    ((1..(MaxCoord + 1)) \X (1..(MaxCoord + 1))) \cup {<<5, 2>>, <<1000, 1000>>}

\* the rectangles of the full width of a 1000 x 1000 image that cover 5%,
\* 5.1%, 50%, 97.9%, 98%, 99.5% and 100% of it
WideRects == {Rect(0, 0, 1000, y) : y \in {50, 51, 500, 979, 980, 995, 1000}}

ValidateQuads(size) == IF size = <<1000, 1000>> THEN WideRects ELSE Quads

VInit ==
    /\ imgDimensions \in ValidateSizes
    /\ detected \in ValidateQuads(imgDimensions)
    /\ initialCorners = Null
    /\ isValid = FALSE
    /\ corners = Null
    /\ isDetecting = TRUE
    /\ activeCorner = 0
    /\ cpc = "validate"
    /\ srcQuad = NoMatrix
    /\ dstQuad = NoMatrix
    /\ SolverReady
    /\ WarpIdle
    /\ FilterIdle
    /\ DetectIdle
    /\ AppIdle
    /\ ProcessorIdle

\* CropEditor.tsx line 50: the call of validateDetection
Validate ==
    /\ cpc = "validate"
    /\ isValid' = validateDetection(detected, imgDimensions[1], imgDimensions[2])
    /\ cpc' = "validated"
    /\ UNCHANGED <<initialCorners, imgDimensions, detected, corners, isDetecting,
                   activeCorner, hvars, wvars, fvars, dvars, avars, pvars>>

VNext == Validate

SpecValidate == VInit /\ [][VNext]_vars

(***************************************************************************)
(* Properties of validateDetection.                                        *)
(***************************************************************************)
\* twice the shoelace area of the quadrilateral q, term by term
TwiceArea(q) ==
    LET t == q[1][1] * q[2][2] - q[2][1] * q[1][2]
             + q[2][1] * q[3][2] - q[3][1] * q[2][2]
             + q[3][1] * q[4][2] - q[4][1] * q[3][2]
             + q[4][1] * q[1][2] - q[1][1] * q[4][2]
    IN  IF t < 0 THEN -t ELSE t

\* area / (w*h) > 0.05 and area / (w*h) < 0.98, on whole numbers
InsideGate(q, w, h) ==
    /\ 20 * TwiceArea(q) > 2 * w * h
    /\ 100 * TwiceArea(q) < 2 * 98 * w * h

PointNum(p) == <<Num(p[1]), Num(p[2])>>

\* CropEditor.tsx lines 30-35 and 53-58: the corners from an array of 4 points
CornersOf(ps) == <<PointNum(ps[1]), PointNum(ps[2]), PointNum(ps[3]), PointNum(ps[4])>>

\* a slip: the fallback is the whole image
Fallback_WholeImage(w, h) ==
    <<<<Num(0), Num(0)>>, <<Num(w), Num(0)>>, <<Num(w), Num(h)>>, <<Num(0), Num(h)>>>>

\* CropEditor.tsx lines 62-69
Fallback(w, h) ==
    LET paddingX == Mul[Num(w), Frac(1, 10)]
        paddingY == Mul[Num(h), Frac(1, 10)]
    IN  <<<<paddingX, paddingY>>,
          <<Sub(Num(w), paddingX), paddingY>>,
          <<Sub(Num(w), paddingX), Sub(Num(h), paddingY)>>,
          <<paddingX, Sub(Num(h), paddingY)>>>>

\* the corners App hands to the editor when it has some
PreviousCorners == {Rect(1, 1, 2, 2)}

\* the images the editor is mounted on: those of the detection up to 20
\* pixels each way
CropImages == {image \in DetectImages : image.w <= 20 /\ image.h <= 20}

\* the editor is mounted on an image (CropEditor.tsx lines 16-19)
CInit ==
    /\ dimg \in CropImages
    /\ initialCorners \in {Null} \cup PreviousCorners
    /\ imgDimensions = <<0, 0>>
    /\ detected = Null
    /\ isValid = FALSE
    /\ corners = Null
    /\ isDetecting = (initialCorners = Null)
    /\ activeCorner = 0
    /\ cpc = "mounted"
    /\ gray = NoMatrix
    /\ edges = NoMatrix
    /\ avgGradient = <<0, 0>>
    /\ found = NoMatrix
    /\ dresult = "none"
    /\ dpc = "idle"
    /\ srcQuad = NoMatrix
    /\ dstQuad = NoMatrix
    /\ SolverReady
    /\ WarpIdle
    /\ FilterIdle
    /\ AppIdle
    /\ ProcessorIdle

\* CropEditor.tsx lines 22-38: the image has loaded and there are previous
\* corners
UsePreviousCorners ==
    /\ cpc = "mounted"
    /\ initialCorners # Null
    /\ imgDimensions' = <<dimg.w, dimg.h>>
    /\ corners' = CornersOf(initialCorners)
    /\ isDetecting' = FALSE
    /\ cpc' = "ready"
    /\ UNCHANGED <<initialCorners, detected, isValid, activeCorner,
                   hvars, wvars, fvars, dvars, avars, pvars>>

\* CropEditor.tsx lines 22-26 and 41-72: the image has loaded, there are no
\* previous corners and the timer is set
handleImageLoad ==
    /\ cpc = "mounted"
    /\ initialCorners = Null
    /\ imgDimensions' = <<dimg.w, dimg.h>>
    /\ cpc' = "timer"
    /\ UNCHANGED <<initialCorners, detected, isValid, corners, isDetecting, activeCorner,
                   hvars, wvars, fvars, dvars, avars, pvars>>

\* CropEditor.tsx lines 41-44: the timer fires and detectDocumentEdges is
\* called
TimerFires ==
    /\ cpc = "timer"
    /\ cpc' = "detect"
    /\ dpc' = "blur"
    /\ UNCHANGED <<initialCorners, imgDimensions, detected, isValid, corners, isDetecting,
                   activeCorner, dimg, gray, edges, avgGradient, found, dresult,
                   hvars, wvars, fvars, avars, pvars>>

\* part_000 lines 33-40 and CropEditor.tsx lines 45-47: drawImage or
\* getImageData throws and the exception is caught
DetectThrows ==
    /\ cpc = "detect"
    /\ dpc = "blur"
    /\ dpc' = "threw"
    /\ UNCHANGED <<dimg, gray, edges, avgGradient, found, dresult,
                   hvars, wvars, fvars, cvars, avars, pvars>>

\* CropEditor.tsx lines 42-47: detected after the try statement
DetectedValue == IF dpc = "threw" \/ dresult = "null" THEN Null ELSE dresult

\* CropEditor.tsx lines 50-71: the rest of the callback
AcceptDetection ==
    /\ cpc = "detect"
    /\ dpc \in {"done", "threw"}
    /\ detected' = DetectedValue
    /\ isValid' = (/\ detected' # Null
                   /\ validateDetection(detected', imgDimensions[1], imgDimensions[2]))
    /\ corners' = IF isValid' THEN CornersOf(detected')
                  ELSE Fallback(imgDimensions[1], imgDimensions[2])
    /\ isDetecting' = FALSE
    /\ cpc' = "ready"
    /\ UNCHANGED <<initialCorners, imgDimensions, activeCorner,
                   hvars, wvars, fvars, dvars, avars, pvars>>

\* the callback of the timer, from its first statement to its last
TimerCallback ==
    TimerFires \/ DetectThrows \/ Preprocess \/ Sobel \/ Scan \/ AcceptDetection

CNext == UsePreviousCorners \/ handleImageLoad \/ TimerCallback

SpecCrop == CInit /\ [][CNext]_vars

\* a timer that is set fires, and its callback runs to its end
SpecCropRun == CInit /\ [][CNext]_vars /\ WF_vars(TimerCallback)

(***************************************************************************)
(* CropEditor: the pointer handlers (CropEditor.tsx lines 106-192) on an   *)
(* editor that was mounted without initial corners, and the change of its  *)
(* prop imageSrc while it is mounted, which App makes when a second file   *)
(* read completes on the CROP screen (part_000 lines 480-486 and 623-628). *)
(* A pointer event is the point <<clientX, clientY>>; the <img> is laid    *)
(* out at ImgRectOrigin, at its natural size divided by DisplayShrink.     *)
(* The corners are numbered 1 to 4 in the order of cornerKeys (line 132).  *)
(* Distances are compared by their squares.  No pointer event runs inside  *)
(* the callback of the timer.                                              *)
(***************************************************************************)
\* the images of the editor: a uniform white 3x10 image, on which nothing is
\* detected, and a uniform grey 11x11 image, on which a square is detected
EditorImages ==
    {UniformImage(3, 10, <<255, 255, 255, 255>>), UniformImage(11, 11, <<50, 50, 50, 255>>)}

\* imgRect.left and imgRect.top
ImgRectOrigin == <<3, 2>>

\* naturalWidth / imgRect.width of the layout
DisplayShrink == 2

\* the points <<clientX, clientY>> of the pointer events: one left of the
\* image at the height of its second row, one right of and below it
ClientPoints == {<<0, 4>>, <<40, 40>>}

\* lines 95-97 and 172-173: imgRect.width or imgRect.height of an image of
\* natural width or height n
RectSide(n) == Frac(n, DisplayShrink)

\* lines 150-159 and 172-182: the image coordinate of the client coordinate
\* c, for the origin o of imgRect, the natural size n and the limit of the
\* clamp
ImageCoord(c, o, n, limit) ==
    LET scale == Div[Num(n), RectSide(n)]
        relative == Sub(Num(c), Num(o))
    IN  MathMax[Num(0), MathMin[Num(limit), Mul[relative, scale]]]

\* lines 150-159 and 172-182: the point {x, y} of the pointer event at p
ImagePoint(p) ==
    <<ImageCoord(p[1], ImgRectOrigin[1], dimg.w, imgDimensions[1]),
      ImageCoord(p[2], ImgRectOrigin[2], dimg.h, imgDimensions[2])>>

\* lines 123-130 and 137-138: the square of the distance on the screen
\* between the corner at the point c of the image and the pointer at p
ScreenDistance2(c, p) ==
    LET scaleX == Div[RectSide(dimg.w), Num(dimg.w)]
        scaleY == Div[RectSide(dimg.h), Num(dimg.h)]
        dx == Sub(Add[Num(ImgRectOrigin[1]), Mul[c[1], scaleX]], Num(p[1]))
        dy == Sub(Add[Num(ImgRectOrigin[2]), Mul[c[2], scaleY]], Num(p[2]))
    IN  Add[Mul[dx, dx], Mul[dy, dy]]

\* lines 132-144: the corner nearest to the pointer; of two corners at the
\* same distance the first one of cornerKeys
Nearest(cs, p) ==
    CHOOSE i \in 1..4 :
        /\ \A j \in 1..4 : ~Lt(ScreenDistance2(cs[j], p), ScreenDistance2(cs[i], p))
        /\ \A j \in 1..(i - 1) : Lt(ScreenDistance2(cs[i], p), ScreenDistance2(cs[j], p))

\* the editor is mounted on an image, without initial corners
EInit ==
    /\ CInit
    /\ dimg \in EditorImages
    /\ initialCorners = Null

\* the event loop is between two tasks
BetweenTasks == cpc \in {"mounted", "timer", "ready"}

\* lines 106-110 and 291-298: pointer down on the handle of a corner
handlePointerDown ==
    /\ BetweenTasks
    /\ ~isDetecting
    /\ corners # Null
    /\ \E corner \in 1..4 :
          /\ activeCorner # corner
          /\ activeCorner' = corner
    /\ UNCHANGED <<initialCorners, imgDimensions, detected, isValid, corners, isDetecting,
                   cpc, hvars, wvars, fvars, dvars, avars, pvars>>

\* lines 113-163: pointer down on the image
handleBackgroundPointerDown ==
    /\ BetweenTasks
    /\ corners # Null
    /\ \E p \in ClientPoints :
          /\ corners' = [corners EXCEPT ![Nearest(corners, p)] = ImagePoint(p)]
          /\ activeCorner' = Nearest(corners, p)
    /\ UNCHANGED <<initialCorners, imgDimensions, detected, isValid, isDetecting,
                   cpc, hvars, wvars, fvars, dvars, avars, pvars>>

\* lines 165-185
handlePointerMove ==
    /\ BetweenTasks
    /\ activeCorner # 0
    /\ corners # Null
    /\ \E p \in ClientPoints :
          corners' = [corners EXCEPT ![activeCorner] = ImagePoint(p)]
    /\ UNCHANGED <<initialCorners, imgDimensions, detected, isValid, isDetecting,
                   activeCorner, cpc, hvars, wvars, fvars, dvars, avars, pvars>>

\* lines 187-190
handlePointerUp ==
    /\ BetweenTasks
    /\ activeCorner' = 0
    /\ UNCHANGED <<initialCorners, imgDimensions, detected, isValid, corners, isDetecting,
                   cpc, hvars, wvars, fvars, dvars, avars, pvars>>

\* part_000 lines 480-486 and CropEditor.tsx lines 285-288 and 22-41: App
\* sets another image as imageSrc of the editor, which is ready, and null as
\* its initialCorners; the <img> has loaded the image and handleImageLoad
\* has set the timer.  The corners and isDetecting are as they were.
ImageSrcChanged ==
    /\ cpc = "ready"
    /\ \E image \in EditorImages \ {dimg} :
          /\ dimg' = image
          /\ imgDimensions' = <<image.w, image.h>>
    /\ initialCorners' = Null
    /\ cpc' = "timer"
    /\ UNCHANGED <<detected, isValid, corners, isDetecting, activeCorner,
                   gray, edges, avgGradient, found, dresult, dpc,
                   hvars, wvars, fvars, avars, pvars>>

ENext ==
    \/ handleImageLoad \/ TimerCallback \/ ImageSrcChanged
    \/ handlePointerDown \/ handleBackgroundPointerDown \/ handlePointerMove
    \/ handlePointerUp

SpecEditor == EInit /\ [][ENext]_vars

(***************************************************************************)
(* Properties of the crop editor.                                          *)
(***************************************************************************)
\* the centred rectangle that leaves 10% of the width and of the height on
\* each side
CentredRect(w, h) ==
    <<<<Frac(w, 10), Frac(h, 10)>>, <<Frac(9 * w, 10), Frac(h, 10)>>,
      <<Frac(9 * w, 10), Frac(9 * h, 10)>>, <<Frac(w, 10), Frac(9 * h, 10)>>>>

\* the detector returned a quadrilateral that passes the area-ratio gate
Accepted ==
    /\ dpc = "done"
    /\ dresult # "null"
    /\ InsideGate(dresult, dimg.w, dimg.h)

\* the corners after the load of an image without previous corners
CornersAsClaimed ==
    (cpc = "ready" /\ initialCorners = Null) =>
        /\ Accepted => corners = CornersOf(dresult)
        /\ ~Accepted => corners = CentredRect(dimg.w, dimg.h)

\* C14: when the crop editor loads an image without initial corners, a
\* detection result is accepted only if it is non-null and passes
\* validateDetection; in every other case (null, exception, failed
\* validation) the corners are set to the centred rectangle with 10% padding
\* on each side; in both cases isDetecting eventually becomes false.
C14_DetectionOrFallback ==
    /\ [](CornersAsClaimed)
    /\ [](cpc = "ready" => ~isDetecting)
    /\ (cpc = "timer") ~> (cpc = "ready")

\* the detector returned a quadrilateral, it failed the validation and the
\* corners are the fallback
C14_Witness ==
    /\ cpc = "ready" /\ initialCorners = Null
    /\ dpc = "done" /\ dresult # "null"
    /\ ~isValid
    /\ ~isDetecting
    /\ corners = CentredRect(dimg.w, dimg.h)
    /\ corners # CornersOf(dresult)

\* lines 329-331: the confirm button calls onConfirm
ConfirmEnabled == ~isDetecting /\ corners # Null

\* the point c is inside the image of size <<w, h>>
InsideImage(c, w, h) ==
    /\ Ge[c[1], Num(0)] /\ Ge[Num(w), c[1]]
    /\ Ge[c[2], Num(0)] /\ Ge[Num(h), c[2]]

\* C23: after any sequence of pointer-down, click-to-snap, pointer-move and
\* pointer-up events in the crop editor, starting from detected or fallback
\* corners, all four corners satisfy 0 <= x <= imageWidth and
\* 0 <= y <= imageHeight, so that onConfirm is only ever called with four
\* corners inside the image bounds.
C23_CornersInsideImage ==
    (corners # Null) =>
        \A i \in 1..4 : InsideImage(corners[i], imgDimensions[1], imgDimensions[2])

(***************************************************************************)
(* App (part_000 lines 449-644): the screens UPLOAD, CROP and PROCESS, the *)
(* file reads of processFile and the calls of handleCropConfirm, which     *)
(* wait for the load event of an Image.  A file is a number.  The corners  *)
(* the crop editor confirms are <<u, k>>: the k-th placement of the        *)
(* corners on the image of data URL u, where placement 0 is the one the   *)
(* editor computes itself.  null is the empty tuple.  Of the crop editor   *)
(* App renders, the model keeps what decides the corners it confirms: the  *)
(* image its <img> has loaded, its corners, isDetecting and its timers.    *)
(* dragActive, which only colours the drop area, is left out, and so is    *)
(* the choice of a file that is not an image, which changes nothing (lines *)
(* 474-477).                                                               *)
(***************************************************************************)
MaxFiles == 2      \* the files the user chooses among
MaxPending == 2    \* file reads that are in flight at the same time
MaxPlacements == 2 \* the corner placements the user chooses among

Files == 1..MaxFiles

\* line 482: event.target.result, the data URL of the file
DataUrl(file) == <<"data", file>>
Placements == 1..MaxPlacements

\* lines 296-369: the data URL performWarp returns for the image and corners
performWarp(src, cs) == <<"warped", src, cs>>

\* the sequence q without its i-th element
RemoveAt(q, i) == SubSeq(q, 1, i - 1) \o SubSeq(q, i + 1, Len(q))

AInit ==
    /\ AppIdle
    /\ CropIdle
    /\ ProcessorIdle
    /\ srcQuad = NoMatrix
    /\ dstQuad = NoMatrix
    /\ SolverReady
    /\ WarpIdle
    /\ FilterIdle
    /\ DetectIdle

\* lines 615-629: the crop editor is on the screen
CropEditorShown == appState = "CROP" /\ sourceImage # Null /\ ~isProcessing

\* CropEditor.tsx lines 16-19: the state of a crop editor that is mounted
\* with the initialCorners lc; its <img> has not loaded yet
Mounted(lc) ==
    [mounted |-> TRUE, shown |-> Null, corners |-> Null, isDetecting |-> (lc = Null),
     timers |-> {}]

\* lines 615-629: the crop editor after App has rendered: it is unmounted
\* when the condition of its branch is false, mounted anew when the
\* condition has become true, and keeps its state otherwise
Render(ed, shownNow, lc) ==
    IF ~shownNow THEN NoEditor
    ELSE IF ed.mounted THEN ed
    ELSE Mounted(lc)

\* lines 473-488, called by handleFileChange and handleDrop of the UPLOAD
\* screen (lines 563-613) with an image file: the read is started
processFile ==
    /\ appState = "UPLOAD"
    /\ Len(readers) < MaxPending
    /\ \E file \in Files : readers' = Append(readers, file)
    /\ UNCHANGED <<appState, sourceImage, warpedImage, isProcessing, lastCorners,
                   confirms, outcome, editor, hvars, wvars, fvars, dvars, cvars, pvars>>

\* lines 480-486: reader.onload of some read in flight
ReaderLoad ==
    \E i \in DOMAIN readers :
        /\ sourceImage' = DataUrl(readers[i])
        /\ lastCorners' = Null
        /\ appState' = "CROP"
        /\ readers' = RemoveAt(readers, i)
        /\ UNCHANGED <<warpedImage, isProcessing, confirms, outcome,
                       hvars, wvars, fvars, dvars, cvars, pvars>>
        /\ editor' = Render(editor, CropEditorShown', lastCorners')

\* line 479: the read fails; the reader has no onerror
ReaderError ==
    \E i \in DOMAIN readers :
        /\ readers' = RemoveAt(readers, i)
        /\ UNCHANGED <<appState, sourceImage, warpedImage, isProcessing, lastCorners,
                       confirms, outcome, editor, hvars, wvars, fvars, dvars, cvars, pvars>>

\* CropEditor.tsx lines 22-40 and 285-288: the <img> of the editor has
\* loaded the image of its src; with initialCorners the corners are set,
\* without them the timer of the detection is started
EditorImageLoad ==
    /\ editor.mounted
    /\ editor.shown # sourceImage
    /\ editor' = IF lastCorners # Null
                 THEN [editor EXCEPT !.shown = sourceImage, !.corners = lastCorners,
                                     !.isDetecting = FALSE]
                 ELSE [editor EXCEPT !.shown = sourceImage,
                                     !.timers = @ \cup {sourceImage}]
    /\ UNCHANGED <<appState, sourceImage, warpedImage, isProcessing, lastCorners,
                   readers, confirms, outcome, hvars, wvars, fvars, dvars, cvars, pvars>>

\* CropEditor.tsx lines 41-72: the timer that the load of the image u
\* started fires: the corners are set from the pixels the <img> holds, to
\* what the detector found or to the fallback (written as placement 0)
EditorTimer ==
    /\ editor.mounted
    /\ \E u \in editor.timers :
          editor' = [editor EXCEPT !.corners = <<editor.shown, 0>>,
                                   !.isDetecting = FALSE,
                                   !.timers = @ \ {u}]
    /\ UNCHANGED <<appState, sourceImage, warpedImage, isProcessing, lastCorners,
                   readers, confirms, outcome, hvars, wvars, fvars, dvars, cvars, pvars>>

\* CropEditor.tsx lines 106-192 and 291-300: the user places the corners on
\* the image the editor shows
EditorDrag ==
    /\ editor.mounted
    /\ ~editor.isDetecting
    /\ editor.corners # Null
    /\ \E k \in Placements : editor' = [editor EXCEPT !.corners = <<editor.shown, k>>]
    /\ UNCHANGED <<appState, sourceImage, warpedImage, isProcessing, lastCorners,
                   readers, confirms, outcome, hvars, wvars, fvars, dvars, cvars, pvars>>

\* CropEditor.tsx lines 329-331 and lines 515-523: the confirm button calls
\* onConfirm with the corners of the editor; handleCropConfirm up to the
\* await of the load event
handleCropConfirm ==
    /\ editor.mounted
    /\ ~editor.isDetecting
    /\ editor.corners # Null
    /\ lastCorners' = editor.corners
    /\ confirms' = Append(confirms,
            [src |-> sourceImage, corners |-> editor.corners, load |-> "loading"])
    /\ isProcessing' = TRUE
    /\ UNCHANGED <<appState, sourceImage, warpedImage, readers, outcome,
                   hvars, wvars, fvars, dvars, cvars, pvars>>
    /\ editor' = Render(editor, CropEditorShown', lastCorners')

\* lines 523-529 and 533-535: the load event arrives, performWarp returns
WarpDone ==
    \E i \in DOMAIN confirms :
        /\ confirms[i].load = "loading"
        /\ warpedImage' = performWarp(confirms[i].src, confirms[i].corners)
        /\ appState' = "PROCESS"
        /\ isProcessing' = FALSE
        /\ outcome' = "warped"
        /\ confirms' = RemoveAt(confirms, i)
        /\ UNCHANGED <<sourceImage, lastCorners, readers, hvars, wvars, fvars, dvars, cvars, pvars>>
        /\ editor' = Render(editor, CropEditorShown', lastCorners')

\* lines 523-526 and 530-535: the load event arrives, performWarp throws
\* (lines 309 and 375: no 2D context)
WarpThrows ==
    \E i \in DOMAIN confirms :
        /\ confirms[i].load = "loading"
        /\ isProcessing' = FALSE
        /\ outcome' = "error"
        /\ confirms' = RemoveAt(confirms, i)
        /\ UNCHANGED <<appState, sourceImage, warpedImage, lastCorners, readers,
                       hvars, wvars, fvars, dvars, cvars, pvars>>
        /\ editor' = Render(editor, CropEditorShown', lastCorners')

\* lines 521-523: the image does not load: its error event has no listener
\* and the promise of line 523 is never settled
ImageError ==
    \E i \in DOMAIN confirms :
        /\ confirms[i].load = "loading"
        /\ confirms' = [confirms EXCEPT ![i].load = "failed"]
        /\ UNCHANGED <<appState, sourceImage, warpedImage, isProcessing, lastCorners,
                       readers, outcome, editor, hvars, wvars, fvars, dvars, cvars, pvars>>

\* line 627: onCancel of the crop editor
onCancel ==
    /\ editor.mounted
    /\ appState' = "UPLOAD"
    /\ UNCHANGED <<sourceImage, warpedImage, isProcessing, lastCorners, readers,
                   confirms, outcome, hvars, wvars, fvars, dvars, cvars, pvars>>
    /\ editor' = Render(editor, CropEditorShown', lastCorners')

\* line 636: onBack of the processor, which is shown when warpedImage is set
onBack ==
    /\ appState = "PROCESS"
    /\ warpedImage # Null
    /\ appState' = "CROP"
    /\ UNCHANGED <<sourceImage, warpedImage, isProcessing, lastCorners, readers,
                   confirms, outcome, hvars, wvars, fvars, dvars, cvars, pvars>>
    /\ editor' = Render(editor, CropEditorShown', lastCorners')

\* lines 538-543, the button of the header (lines 555-559)
resetApp ==
    /\ appState # "UPLOAD"
    /\ sourceImage' = Null
    /\ warpedImage' = Null
    /\ lastCorners' = Null
    /\ appState' = "UPLOAD"
    /\ UNCHANGED <<isProcessing, readers, confirms, outcome,
                   hvars, wvars, fvars, dvars, cvars, pvars>>
    /\ editor' = Render(editor, CropEditorShown', lastCorners')

\* what the browser does
AppCompletion ==
    \/ ReaderLoad \/ ReaderError \/ WarpDone \/ WarpThrows \/ ImageError
    \/ EditorImageLoad \/ EditorTimer

\* what the user does
AppUser ==
    processFile \/ EditorDrag \/ handleCropConfirm \/ onCancel \/ onBack \/ resetApp

ANext == AppUser \/ AppCompletion

SpecApp == AInit /\ [][ANext]_vars

\* a read, a load or a timer that is in flight ends
SpecAppRun == AInit /\ [][ANext]_vars /\ WF_vars(AppCompletion)

(***************************************************************************)
(* Properties of App.                                                      *)
(***************************************************************************)
\* the image of some handleCropConfirm call did not load
LoadFailed == \E i \in DOMAIN confirms : confirms[i].load = "failed"

\* C12: a failed image decode is surfaced as a hard error: if the image load
\* started by handleCropConfirm fails, the call ends in an error outcome and
\* isProcessing eventually returns to false, rather than the call staying
\* pending forever.
C12_DecodeFailureSurfaced ==
    LoadFailed ~> (~LoadFailed /\ ~isProcessing /\ outcome = "error")


\* C20: in every reachable state of App, under any interleaving of the user
\* actions (file load, confirm, back, cancel, reset) with the file-read and
\* warp completions, the current screen has the data it renders:
\* appState = CROP implies sourceImage is non-null, and appState = PROCESS
\* implies warpedImage is non-null.
C20_ScreenHasData ==
    /\ (appState = "CROP") => (sourceImage # Null)
    /\ (appState = "PROCESS") => (warpedImage # Null)


\* C22: whenever the crop editor is opened for a source image, the
\* initialCorners it receives (lastCorners) are null or corners that were
\* confirmed for that same source image: corners confirmed for one image
\* are never offered for a different image, under any interleaving of
\* confirm, back, cancel, reset and file-load completions.
C22_CornersOfSameImage ==
    (editor.mounted /\ lastCorners # Null) => (lastCorners[1] = sourceImage)

(***************************************************************************)
(* ScannerProcessor (ScannerProcessor.tsx), while it is mounted: the       *)
(* settings, the effect of lines 26-69, which starts a call of process at  *)
(* the mount and after every change of settings, and the calls of process  *)
(* that wait for the load event of their Image (line 31).  Each call has   *)
(* its own Image; the effect has no cleanup, so earlier calls are not      *)
(* cancelled, and the load events of different Images arrive in any order. *)
(* What a call draws and filters is written <<image, settings>>: the image *)
(* drawn rotated and with the margin, then applyFilters with the settings. *)
(***************************************************************************)
MaxRuns == 2       \* calls of process that wait for their image at the same time

\* part_000 line 299: the default targetWidth of performWarp
DefaultTargetWidth == 1240

\* the image performWarp encodes: the size of its canvas (part_000 lines 304-306)
WarpedSize == <<DefaultTargetWidth, TargetHeight(DefaultTargetWidth)>>

\* the settings the controls of lines 130-250 are used with
SettingChoices ==
    {<<"mode", "binary">>, <<"mode", "enhanced">>,
     <<"brightness", 10>>, <<"brightness", 50>>}

\* ScannerProcessor.tsx line 104
WithSetting(s, key, value) == [s EXCEPT ![key] = value]

\* ScannerProcessor.tsx line 108
Rotated(s) == [s EXCEPT !.rotation = (s.rotation + 90) % 360]

\* ScannerProcessor.tsx line 40
IsVertical(s) == s.rotation % 180 = 0

\* ScannerProcessor.tsx lines 40-62: the canvas after a call of process with
\* the settings s has drawn the image of size <<w, h>>
Processed(size, s) ==
    [width |-> IF IsVertical(s) THEN size[1] ELSE size[2],
     height |-> IF IsVertical(s) THEN size[2] ELSE size[1],
     content |-> <<size, s>>]

\* ScannerProcessor.tsx line 64: canvas.toDataURL('image/png')
toDataURL(cv) == <<"png", cv.width, cv.height, cv.content>>

\* ScannerProcessor.tsx lines 26-31: the effect runs: process is called and
\* waits for the image
Started(s) == Append(runs, [settings |-> s, load |-> "loading"])

\* the component is mounted and its effect has run once
PInit ==
    /\ warpedImageSrc = WarpedSize
    /\ procSettings = InitialSettings
    /\ procIsProcessing = TRUE
    /\ printSrc = ""
    /\ canvas = NewCanvas
    /\ runs = <<[settings |-> InitialSettings, load |-> "loading"]>>
    /\ AppIdle
    /\ CropIdle
    /\ srcQuad = NoMatrix
    /\ dstQuad = NoMatrix
    /\ SolverReady
    /\ WarpIdle
    /\ FilterIdle
    /\ DetectIdle

\* ScannerProcessor.tsx lines 103-105, then the effect
updateSetting ==
    /\ Len(runs) < MaxRuns
    /\ \E choice \in SettingChoices :
          procSettings' = WithSetting(procSettings, choice[1], choice[2])
    /\ runs' = Started(procSettings')
    /\ procIsProcessing' = TRUE
    /\ UNCHANGED <<warpedImageSrc, printSrc, canvas,
                   hvars, wvars, fvars, dvars, cvars, avars>>

\* ScannerProcessor.tsx lines 107-109, then the effect
rotate ==
    /\ Len(runs) < MaxRuns
    /\ procSettings' = Rotated(procSettings)
    /\ runs' = Started(procSettings')
    /\ procIsProcessing' = TRUE
    /\ UNCHANGED <<warpedImageSrc, printSrc, canvas,
                   hvars, wvars, fvars, dvars, cvars, avars>>

\* ScannerProcessor.tsx lines 31-65: the image of some waiting call loads
\* and the call runs to its end
process ==
    \E i \in DOMAIN runs :
        /\ runs[i].load = "loading"
        /\ canvas' = Processed(warpedImageSrc, runs[i].settings)
        /\ printSrc' = toDataURL(canvas')
        /\ procIsProcessing' = FALSE
        /\ runs' = RemoveAt(runs, i)
        /\ UNCHANGED <<warpedImageSrc, procSettings,
                       hvars, wvars, fvars, dvars, cvars, avars>>

\* ScannerProcessor.tsx lines 29-31: the image of some waiting call does not
\* load; there is no onerror and the call waits for ever
processImageError ==
    \E i \in DOMAIN runs :
        /\ runs[i].load = "loading"
        /\ runs' = [runs EXCEPT ![i].load = "failed"]
        /\ UNCHANGED <<warpedImageSrc, procSettings, procIsProcessing, printSrc, canvas,
                       hvars, wvars, fvars, dvars, cvars, avars>>

PNext == updateSetting \/ rotate \/ process \/ processImageError

SpecProcessor == PInit /\ [][PNext]_vars

(***************************************************************************)
(* Properties of ScannerProcessor.                                         *)
(***************************************************************************)
\* every call of process that was started has run to its end
AllRunsCompleted == runs = <<>>

\* C13: every settings change re-runs the whole filter pipeline from the
\* rectified image: after any sequence of settings changes, once all started
\* processing runs have completed, the canvas and printSrc are the result of
\* applying the latest settings to the warped image, independent of earlier
\* settings and of the order in which overlapping runs complete.
C13_LatestSettingsShown ==
    AllRunsCompleted =>
        /\ canvas = Processed(warpedImageSrc, procSettings)
        /\ printSrc = toDataURL(Processed(warpedImageSrc, procSettings))

\* C19: after any sequence of rotate actions starting from rotation 0,
\* settings.rotation is one of 0, 90, 180, 270, and, the started runs having
\* completed, the canvas has the warped image's width x height when rotation
\* is 0 or 180 and height x width when rotation is 90 or 270.
C19_RotationAndCanvasSize ==
    /\ procSettings.rotation \in {0, 90, 180, 270}
    /\ AllRunsCompleted =>
          /\ (procSettings.rotation \in {0, 180}) =>
                (canvas.width = warpedImageSrc[1] /\ canvas.height = warpedImageSrc[2])
          /\ (procSettings.rotation \in {90, 270}) =>
                (canvas.width = warpedImageSrc[2] /\ canvas.height = warpedImageSrc[1])

\* ScannerProcessor.tsx line 72: handlePrint goes past its guard
PrintAllowed == ~procIsProcessing /\ printSrc # ""

\* C21: whenever isProcessing is false no processing run is still pending, so
\* handlePrint, which is guarded by isProcessing, can only print an image
\* produced from the current settings; this holds also when the settings
\* change again while an earlier run still waits for its image.
C21_IdleMeansNoPendingRun ==
    /\ ~procIsProcessing => AllRunsCompleted
    /\ PrintAllowed => printSrc = toDataURL(Processed(warpedImageSrc, procSettings))

=============================================================================
